---- MODULE Spec2Model ----
(***************************************************************************)
(* Model of src/src/ai_detector.py: the polling loop of main() and the     *)
(* pure functions it calls (extract_lines, compute_metrics, simple_score,  *)
(* send_syslog).                                                           *)
(*                                                                         *)
(* Representation notes.                                                   *)
(*  - A text (Python str) is a sequence of one-character strings.          *)
(*  - A JSON value is a tagged record: [t |-> "str", s |-> text],          *)
(*    [t |-> "int", n |-> k], [t |-> "null"], [t |-> "arr", a |-> seq],    *)
(*    [t |-> "obj", f |-> function from key to JSON value].                *)
(*  - A rate (a Python float obtained as count / minutes) is the exact     *)
(*    rational [n |-> count, d |-> minutes]; the code compares rates only  *)
(*    with the integers 20, 5 and 2, and the correctly rounded quotient of *)
(*    two small integers compares with an integer as the rational does.    *)
(*  - A throughput value is the exact decimal [n |-> digits, d |-> 10^k]   *)
(*    of the matched text; thr_avg is None or the rational                 *)
(*    [n |-> sum.n, d |-> sum.d * number of values].                       *)
(*  - A score is an integer number of hundredths.  The doubles the code    *)
(*    computes (0.35, 0.7, 0.6499999999999999, 0.8999999999999999, 1.2 ..) *)
(*    compare with 1.0 and with the thresholds 0.10, 0.75 and 1.01 as      *)
(*    their hundredths do, and "%.2f" prints exactly the hundredths.       *)
(*  - The backend keeps what send_syslog transmitted: syslog-ng writes the *)
(*    datagram to the file promtail ships to Loki (docstring of            *)
(*    send_syslog), under the labels QUERY selects.  "store" holds those   *)
(*    lines as texts with their age in cycles; a line leaves the store     *)
(*    when no later window can cover it.  In a stored line the clock's     *)
(*    timestamp is left out and thr_avg is written with two decimals       *)
(*    (digits and a dot either way).                                       *)
(***************************************************************************)
EXTENDS Integers, Sequences, FiniteSets, TLC

VARIABLES
    pc,         \* position of main() in its loop
    threshold,  \* the configured SCORE_THRESHOLD, in hundredths
    cycle,      \* number of cycles started
    data,       \* local "data": the backend response of the last fetch
    lines,      \* local "lines"
    metrics,    \* local "metrics"
    score,      \* local "score", in hundredths
    reasons,    \* local "reasons"
    msg,        \* local "msg"
    exc,        \* the exception being handled or propagating, or None
    printed,    \* the lines printed to stdout since the cycle started
    sent,       \* the datagrams transmitted since the cycle started
    handed,     \* the messages passed to send_syslog since the cycle started
    slept,      \* seconds slept since the last cycle ended
    store,      \* the detector's own lines in the backend that a window can
                \* still cover, each with its age in cycles
    external    \* do lines of other sources still arrive in the window

vars == <<pc, threshold, cycle, data, lines, metrics, score, reasons, msg,
          exc, printed, sent, handed, slept, store, external>>

None == [t |-> "none"]

\* ------------------------------------------------------------ configuration
WINDOW_MINUTES == 5
POLL_SECONDS == 60
SCORE_THRESHOLD == 10

\* The threshold values the loop is run with: the shipped 0.10, the 0.75 the
\* source's comment announces, the maximum score 1.00 and the edge 1.01.
ThresholdValues == {SCORE_THRESHOLD, 75, 100, 101}

\* ------------------------------------------------------------------ bounds
MaxCycles == 2

\* -------------------------------------------------------------------- text
UpperChars == <<"A","B","C","D","E","F","G","H","I","J","K","L","M",
                "N","O","P","Q","R","S","T","U","V","W","X","Y","Z">>
LowerChars == <<"a","b","c","d","e","f","g","h","i","j","k","l","m",
                "n","o","p","q","r","s","t","u","v","w","x","y","z">>
DigitChars == <<"0","1","2","3","4","5","6","7","8","9">>

\* str.lower() on one character
LowerChar(c) ==
    IF \E i \in 1..26 : UpperChars[i] = c
    THEN LowerChars[CHOOSE i \in 1..26 : UpperChars[i] = c]
    ELSE c

\* str.lower()
lower(s) == [i \in 1..Len(s) |-> LowerChar(s[i])]

\* Python's  sub in s  on strings
Contains(s, sub) ==
    \E i \in 1..(Len(s) - Len(sub) + 1) : SubSeq(s, i, i + Len(sub) - 1) = sub

IsDigit(c) == \E i \in 1..10 : DigitChars[i] = c

DigitVal(c) == (CHOOSE i \in 1..10 : DigitChars[i] = c) - 1

\* the value of a (possibly empty) string of decimal digits
RECURSIVE IntOfDigits(_)
IntOfDigits(s) ==
    IF s = <<>> THEN 0
    ELSE 10 * IntOfDigits(SubSeq(s, 1, Len(s) - 1)) + DigitVal(s[Len(s)])

\* str(n) for a natural number n
RECURSIVE Digits(_)
Digits(n) ==
    IF n < 10 THEN <<DigitChars[n + 1]>>
    ELSE Append(Digits(n \div 10), DigitChars[(n % 10) + 1])

RECURSIVE Pow10(_)
Pow10(k) == IF k = 0 THEN 1 ELSE 10 * Pow10(k - 1)

\* "%.2f" of a non-negative number given in hundredths
Fmt2(h) == Digits(h \div 100) \o <<".">> \o
           <<DigitChars[((h % 100) \div 10) + 1], DigitChars[(h % 10) + 1]>>

\* "%.2f" of the rate n/d: the hundredths nearest to it
Fmt2Rate(r) == Fmt2((2 * 100 * r.n + r.d) \div (2 * r.d))

\* ",".join(tags)
RECURSIVE Join(_)
Join(tags) ==
    IF tags = <<>> THEN <<>>
    ELSE IF Len(tags) = 1 THEN <<tags[1]>>
    ELSE <<tags[1], ",">> \o Join(Tail(tags))

\* ------------------------------------------------------------ RE_THROUGHPUT
ThroughputPrefix == <<"T","h","r","o","u","g","h","p","u","t","=">>

\* length of the longest run of digits of s that starts at index i
RECURSIVE DigitRun(_, _)
DigitRun(s, i) ==
    IF i <= Len(s) /\ IsDigit(s[i]) THEN 1 + DigitRun(s, i + 1) ELSE 0

\* the fraction digits taken by  \.?[0-9]+  after the greedy [0-9]* at j+r1
FracRun(s, k) ==
    IF k <= Len(s) /\ s[k] = "." THEN DigitRun(s, k + 1) ELSE 0

\* does  Throughput=([0-9]*\.?[0-9]+)  match at index i of s
ThroughputMatchAt(s, i) ==
    LET j == i + Len(ThroughputPrefix)
        r1 == DigitRun(s, j)
    IN  /\ i + Len(ThroughputPrefix) - 1 <= Len(s)
        /\ SubSeq(s, i, j - 1) = ThroughputPrefix
        /\ (r1 > 0 \/ FracRun(s, j + r1) > 0)

\* float(m.group(1)) of the match at index i, as the rational n/d
ThroughputValueAt(s, i) ==
    LET j  == i + Len(ThroughputPrefix)
        r1 == DigitRun(s, j)
        r2 == FracRun(s, j + r1)
    IN  [n |-> IntOfDigits(SubSeq(s, j, j + r1 - 1)) * Pow10(r2)
               + IntOfDigits(SubSeq(s, j + r1 + 1, j + r1 + r2)),
         d |-> Pow10(r2)]

\* RE_THROUGHPUT.search(line): None, or the value of the leftmost match
RE_THROUGHPUT(s) ==
    IF \E i \in 1..Len(s) : ThroughputMatchAt(s, i)
    THEN ThroughputValueAt(s,
            CHOOSE i \in 1..Len(s) :
                /\ ThroughputMatchAt(s, i)
                /\ \A k \in 1..(i - 1) : ~ThroughputMatchAt(s, k))
    ELSE None

\* -------------------------------------------------------------------- JSON
JStr(s)  == [t |-> "str", s |-> s]
JInt(k)  == [t |-> "int", n |-> k]
JNull    == [t |-> "null"]
JArr(a)  == [t |-> "arr", a |-> a]
JObj(f)  == [t |-> "obj", f |-> f]

Ok(v)          == [ok |-> TRUE, val |-> v]
Raise(ty, txt) == [ok |-> FALSE, exc |-> [type |-> ty, text |-> txt]]

\* dict.get(key, default) on a JSON object's fields
Get(f, key, default) == IF key \in DOMAIN f THEN f[key] ELSE default

JEmptyObj == JObj([k \in {} |-> JNull])

\* Python's iteration over a JSON value (for x in v).  An object yields its
\* keys; a key is kept as one text element, standing for a name that is not
\* two characters long.
Iterate(v) ==
    CASE v.t = "arr" -> Ok(v.a)
      [] v.t = "str" -> Ok([i \in 1..Len(v.s) |-> JStr(<<v.s[i]>>)])
      [] v.t = "obj" ->
            LET RECURSIVE Keys(_)
                Keys(S) == IF S = {} THEN <<>>
                           ELSE LET k == CHOOSE x \in S : TRUE
                                IN  <<JStr(<<k>>)>> \o Keys(S \ {k})
            IN  Ok(Keys(DOMAIN v.f))
      [] v.t = "null" -> Raise("TypeError", "'NoneType' object is not iterable")
      [] OTHER -> Raise("TypeError", "'int' object is not iterable")

\* int(ts_ns)
PyInt(v) ==
    CASE v.t = "int" -> Ok(v.n)
      [] v.t = "str" ->
            IF v.s # <<>> /\ \A i \in 1..Len(v.s) : IsDigit(v.s[i])
            THEN Ok(IntOfDigits(v.s))
            ELSE Raise("ValueError", "invalid literal for int() with base 10")
      [] OTHER -> Raise("TypeError", "int() argument must be a string or a number")

\* one step of  for ts_ns, line in ...: the pair (int(ts_ns), line), or the
\* exception of the unpacking or of int()
ExtractValue(value) ==
    LET it == Iterate(value)
    IN  IF ~it.ok
        THEN Raise("TypeError", "cannot unpack non-iterable object")
        ELSE IF Len(it.val) # 2
        THEN Raise("ValueError", "wrong number of values to unpack")
        ELSE LET ts == PyInt(it.val[1])
             IN  IF ~ts.ok THEN ts ELSE Ok(<<ts.val, it.val[2]>>)

\* for ts_ns, line in values: out.append((int(ts_ns), line)); the first entry
\* that raises ends the loop
ExtractValues(values, out) ==
    LET bad == {i \in 1..Len(values) : ~ExtractValue(values[i]).ok}
    IN  IF bad # {}
        THEN ExtractValue(values[CHOOSE i \in bad : \A k \in bad : i <= k])
        ELSE Ok(out \o [i \in 1..Len(values) |-> ExtractValue(values[i]).val])

\* the body of  for stream in result: for ... in stream.get("values", [])
RECURSIVE ExtractStreams(_, _)
ExtractStreams(result, out) ==
    IF result = <<>> THEN Ok(out)
    ELSE LET stream == result[1]
         IN  IF stream.t # "obj"
             THEN Raise("AttributeError", "object has no attribute 'get'")
             ELSE LET values == Iterate(Get(stream.f, "values", JArr(<<>>)))
                  IN  IF ~values.ok THEN values
                      ELSE LET got == ExtractValues(values.val, out)
                           IN  IF ~got.ok THEN got
                               ELSE ExtractStreams(Tail(result), got.val)

\* mutant of extract_lines: the keys are indexed, not looked up with a default
extract_linesIndexed(loki_json) ==
    IF loki_json.t # "obj"
    THEN Raise("AttributeError", "object has no attribute 'get'")
    ELSE IF "data" \notin DOMAIN loki_json.f
    THEN Raise("KeyError", "'data'")
    ELSE LET d == loki_json.f["data"]
         IN  IF d.t # "obj"
             THEN Raise("AttributeError", "object has no attribute 'get'")
             ELSE IF "result" \notin DOMAIN d.f
             THEN Raise("KeyError", "'result'")
             ELSE LET result == Iterate(d.f["result"])
                  IN  IF ~result.ok THEN result
                      ELSE ExtractStreams(result.val, <<>>)

\* lines 50-57
extract_lines(loki_json) ==
    IF loki_json.t # "obj"
    THEN Raise("AttributeError", "object has no attribute 'get'")
    ELSE LET d == Get(loki_json.f, "data", JEmptyObj)
         IN  IF d.t # "obj"
             THEN Raise("AttributeError", "object has no attribute 'get'")
             ELSE LET result == Iterate(Get(d.f, "result", JArr(<<>>)))
                  IN  IF ~result.ok THEN result
                      ELSE ExtractStreams(result.val, <<>>)

\* ---------------------------------------------------------- compute_metrics
SecurityMarkers == { <<"s","e","c","u","r","i","t","y",":">>,
                     <<"a","u","t","h">> }
ErrorMarkers    == { <<"e","r","r","o","r">>, <<"f","a","i","l","e","d">>,
                     <<"d","e","n","y">>, <<"b","l","o","c","k","e","d">> }

IsSecurityLine(text) == \E mk \in SecurityMarkers : Contains(lower(text), mk)
IsErrorLine(text)    == \E mk \in ErrorMarkers : Contains(lower(text), mk)

Max(a, b) == IF a >= b THEN a ELSE b

\* the sum of two throughput values (denominators are powers of ten)
AddRat(a, b) ==
    LET d == Max(a.d, b.d)
    IN  [n |-> a.n * (d \div a.d) + b.n * (d \div b.d), d |-> d]

\* thr_vals: the throughput values found, in line order
ThrVals(ls) ==
    SelectSeq([i \in 1..Len(ls) |-> RE_THROUGHPUT(ls[i][2].s)],
              LAMBDA v : v # None)

\* sum(vals[lo..hi])
RECURSIVE SumRange(_, _, _)
SumRange(vals, lo, hi) ==
    IF lo > hi THEN [n |-> 0, d |-> 1]
    ELSE IF lo = hi THEN vals[lo]
    ELSE LET mid == (lo + hi) \div 2
         IN  AddRat(SumRange(vals, lo, mid), SumRange(vals, mid + 1, hi))

SumRat(vals) == SumRange(vals, 1, Len(vals))

\* mutant of Rate: the count of the window is not divided by its minutes
RatePerWindow(count, minutes) == [n |-> count, d |-> 1]

\* count / minutes
Rate(count, minutes) == [n |-> count, d |-> minutes]

\* mutant of compute_metrics: no throughput value gives the average 0
compute_metricsZeroThr(ls) ==
    IF \E i \in 1..Len(ls) : ls[i][2].t # "str"
    THEN Raise("AttributeError", "object has no attribute 'lower'")
    ELSE LET total    == Len(ls)
             security == Cardinality({i \in 1..Len(ls) : IsSecurityLine(ls[i][2].s)})
             errors   == Cardinality({i \in 1..Len(ls) : IsErrorLine(ls[i][2].s)})
             thr_vals == ThrVals(ls)
             minutes  == Max(WINDOW_MINUTES, 1)
         IN  Ok([total    |-> total,
                 log_rate |-> Rate(total, minutes),
                 security |-> security,
                 sec_rate |-> Rate(security, minutes),
                 errors   |-> errors,
                 err_rate |-> Rate(errors, minutes),
                 thr_avg  |-> IF thr_vals # <<>>
                              THEN [n |-> SumRat(thr_vals).n,
                                    d |-> SumRat(thr_vals).d * Len(thr_vals)]
                              ELSE [n |-> 0, d |-> 1]])

\* lines 78-119
compute_metrics(ls) ==
    IF \E i \in 1..Len(ls) : ls[i][2].t # "str"
    THEN Raise("AttributeError", "object has no attribute 'lower'")
    ELSE LET total    == Len(ls)
             security == Cardinality({i \in 1..Len(ls) : IsSecurityLine(ls[i][2].s)})
             errors   == Cardinality({i \in 1..Len(ls) : IsErrorLine(ls[i][2].s)})
             thr_vals == ThrVals(ls)
             minutes  == Max(WINDOW_MINUTES, 1)
         IN  Ok([total    |-> total,
                 log_rate |-> Rate(total, minutes),
                 security |-> security,
                 sec_rate |-> Rate(security, minutes),
                 errors   |-> errors,
                 err_rate |-> Rate(errors, minutes),
                 thr_avg  |-> IF thr_vals # <<>>
                              THEN [n |-> SumRat(thr_vals).n,
                                    d |-> SumRat(thr_vals).d * Len(thr_vals)]
                              ELSE None])

\* ------------------------------------------------------------- simple_score
LOG_RATE_MIN == 20
SEC_RATE_MIN == 5
ERR_RATE_MIN == 2
THR_AVG_MIN  == 25
W_LOG_RATE   == 35
W_SEC_RATE   == 35
W_ERR_RATE   == 20
W_THR_AVG    == 30
SCORE_MAX    == 100

\* mutant of RateGE: the threshold itself does not fire the rule
RateGT(r, k) == r.n > k * r.d

\* rate >= k
RateGE(r, k) == r.n >= k * r.d

\* mutant of ThrLT: the comparison turned round
ThrGT(r, h) == 100 * r.n > h * r.d

\* thr_avg < h hundredths
ThrLT(r, h) == 100 * r.n < h * r.d

\* mutant of Rule: the weight is added and the tag forgotten
RuleNoTag(acc, fires, w, tag) ==
    IF fires
    THEN [score |-> acc.score + w, reasons |-> acc.reasons]
    ELSE acc

\* mutant of Rule: an elif chain, a rule is tried only if none fired before
RuleExclusive(acc, fires, w, tag) ==
    IF fires /\ acc.reasons = <<>>
    THEN [score |-> acc.score + w, reasons |-> Append(acc.reasons, tag)]
    ELSE acc

\* one  if <condition>: score += w; reasons.append(tag)
Rule(acc, fires, w, tag) ==
    IF fires
    THEN [score |-> acc.score + w, reasons |-> Append(acc.reasons, tag)]
    ELSE acc

\* mutant of Clamp: the sum is returned as it is
ClampOff(acc) == acc

\* if score > 1.0: score = 1.0
Clamp(acc) == IF acc.score > SCORE_MAX THEN [acc EXCEPT !.score = SCORE_MAX] ELSE acc

simple_score(m) ==
    LET s0 == [score |-> 0, reasons |-> <<>>]
        s1 == Rule(s0, RateGE(m.log_rate, LOG_RATE_MIN), W_LOG_RATE, "high_log_rate")
        s2 == Rule(s1, RateGE(m.sec_rate, SEC_RATE_MIN), W_SEC_RATE, "high_security_rate")
        s3 == Rule(s2, RateGE(m.err_rate, ERR_RATE_MIN), W_ERR_RATE, "high_error_rate")
        s4 == Rule(s3, m.thr_avg # None /\ ThrLT(m.thr_avg, THR_AVG_MIN),
                   W_THR_AVG, "low_throughput")
    IN  Clamp(s4)

\* ------------------------------------------------------------------ inputs
TxtPlain == <<"u","p">>
TxtAuth  == <<"A","U","T","H">>
TxtError == <<"E","r","r","o","r">>
TxtThr10 == ThroughputPrefix \o <<"0",".","1","0">>
TxtThr25 == ThroughputPrefix \o <<".","2","5">>
TxtThr0  == ThroughputPrefix \o <<"0">>
TxtThr40 == ThroughputPrefix \o <<"0",".","4","0">>
TxtThrLower == <<"t","h","r","o","u","g","h","p","u","t","=","0",".","1","0">>
TxtBoth  == <<"S","E","C","U","R","I","T","Y",":"," ","A","u","t","h"," ","F","A","I","L","E","D"," ","d","e","n","y">>

\* n entries [timestamp, text] of one stream, timestamps ts0+1 .. ts0+n
Values(n, text, ts0) ==
    [i \in 1..n |-> JArr(<<JStr(Digits(ts0 + i)), JStr(text)>>)]

Stream(values) == JObj([k \in {"values"} |-> JArr(values)])

\* {"data": {"result": result}}
Response(result) ==
    JObj([k \in {"data"} |-> JObj([j \in {"result"} |-> JArr(result)])])

RespEmpty   == Response(<<>>)
RespNoData  == JEmptyObj
RespNoResult == JObj([k \in {"data"} |-> JEmptyObj])
RespQuiet   == Response(<<Stream(Values(3, TxtPlain, 0))>>)
RespAlmost  == Response(<<Stream(Values(99, TxtPlain, 0))>>)
RespBusy    == Response(<<Stream(Values(100, TxtPlain, 0))>>)
RespAuth    == Response(<<Stream(Values(70, TxtPlain, 0)),
                          Stream(Values(30, TxtAuth, 70))>>)
RespErrors  == Response(<<Stream(Values(10, TxtError, 0))>>)
RespThrLow  == Response(<<Stream(Values(3, TxtThr10, 0))>>)
RespThrOk   == Response(<<Stream(Values(2, TxtThr25, 0))>>)
RespAll     == Response(<<Stream(Values(62, TxtPlain, 0)),
                          Stream(Values(25, TxtAuth, 62)),
                          Stream(Values(10, TxtError, 87)),
                          Stream(Values(3, TxtThr10, 97))>>)
RespThrZero == Response(<<Stream(Values(2, TxtThr0, 0))>>)
RespThrEdge == Response(<<Stream(Values(1, TxtThr10, 0) \o Values(1, TxtThr40, 1))>>)
RespThrLower == Response(<<Stream(Values(3, TxtThrLower, 0))>>)
RespBoth    == Response(<<Stream(Values(4, TxtBoth, 0))>>)
RespNoValues == Response(<<JEmptyObj>>)
\* responses of an unexpected shape
RespNullData == JObj([k \in {"data"} |-> JNull])
RespBadTs    == Response(<<Stream(<<JArr(<<JStr(<<"1","x">>), JStr(TxtPlain)>>)>>)>>)
RespTriple   == Response(<<Stream(<<JArr(<<JStr(<<"1">>), JStr(TxtPlain), JNull>>)>>)>>)
RespIntLine  == Response(<<Stream(<<JArr(<<JStr(<<"1">>), JInt(5)>>)>>)>>)

\* what r.json() can return
Responses == { RespEmpty, RespNoData, RespNoResult, RespQuiet, RespAlmost, RespBusy, RespAuth,
               RespErrors, RespThrLow, RespThrOk, RespAll, RespBoth,
               RespThrZero, RespThrEdge, RespThrLower, RespNoValues,
               RespNullData, RespBadTs, RespTriple, RespIntLine }

\* what requests.get / raise_for_status / r.json() can raise
FetchErrors == { [type |-> "Timeout", text |-> "Read timed out."],
                 [type |-> "ConnectionError", text |-> "Connection refused"],
                 [type |-> "HTTPError", text |-> "503 Server Error"] }

\* what socket.socket / sock.sendto can raise
SendError == [type |-> "OSError", text |-> "Network is unreachable"]

\* ---------------------------------------------------------------- messages
\* the threshold alert of lines 184-188
HighAlert(sc, m, rs) ==
    [alert |-> "AI_ALERT", severity |-> "high", score |-> Fmt2(sc),
     window |-> WINDOW_MINUTES, total |-> m.total, sec |-> m.security,
     errors |-> m.errors, thr_avg |-> m.thr_avg, reason |-> Join(rs)]

\* the cycle-failure alert of line 195
ErrorAlert(e) ==
    [alert |-> "AI_ALERT", severity |-> "medium", score |-> <<"0",".","5","0">>,
     reason |-> <<"ai_engine_error", e.text>>]

\* the line send_syslog puts on the wire (the clock's timestamp left out)
SyslogLine(message) ==
    [host |-> "ai-engine", tag |-> "ai-detector", message |-> message]

\* the status line of lines 174-180
StatusLine(m, sc, rs) ==
    [kind |-> "status", total |-> m.total, log_rate |-> Fmt2Rate(m.log_rate),
     sec_rate |-> Fmt2Rate(m.sec_rate), err_rate |-> Fmt2Rate(m.err_rate),
     thr_avg |-> m.thr_avg, score |-> Fmt2(sc), reasons |-> rs]

\* ------------------------------------------------- the line as it is stored
\* the characters of the words the messages are built from
Chars(word) ==
    CASE word = "ai-engine" ->
            <<"a","i","-","e","n","g","i","n","e">>
      [] word = "ai-detector" ->
            <<"a","i","-","d","e","t","e","c","t","o","r">>
      [] word = "high_log_rate" ->
            <<"h","i","g","h","_","l","o","g","_","r","a","t","e">>
      [] word = "high_security_rate" ->
            <<"h","i","g","h","_","s","e","c","u","r","i","t","y","_","r","a","t","e">>
      [] word = "high_error_rate" ->
            <<"h","i","g","h","_","e","r","r","o","r","_","r","a","t","e">>
      [] word = "low_throughput" ->
            <<"l","o","w","_","t","h","r","o","u","g","h","p","u","t">>
      [] word = "," ->
            <<",">>
      [] word = "ai_engine_error" ->
            <<"a","i","_","e","n","g","i","n","e","_","e","r","r","o","r">>
      [] word = "Read timed out." ->
            <<"R","e","a","d"," ","t","i","m","e","d"," ","o","u","t",".">>
      [] word = "Connection refused" ->
            <<"C","o","n","n","e","c","t","i","o","n"," ","r","e","f","u","s","e","d">>
      [] word = "503 Server Error" ->
            <<"5","0","3"," ","S","e","r","v","e","r"," ","E","r","r","o","r">>
      [] word = "Network is unreachable" ->
            <<"N","e","t","w","o","r","k"," ","i","s"," ","u","n","r","e","a","c","h","a","b","l","e">>
      [] word = "'NoneType' object is not iterable" ->
            <<"'","N","o","n","e","T","y","p","e","'"," ","o","b","j","e","c","t"," ","i","s"," ","n","o","t"," ","i","t","e","r","a","b","l","e">>
      [] word = "'int' object is not iterable" ->
            <<"'","i","n","t","'"," ","o","b","j","e","c","t"," ","i","s"," ","n","o","t"," ","i","t","e","r","a","b","l","e">>
      [] word = "cannot unpack non-iterable object" ->
            <<"c","a","n","n","o","t"," ","u","n","p","a","c","k"," ","n","o","n","-","i","t","e","r","a","b","l","e"," ","o","b","j","e","c","t">>
      [] word = "wrong number of values to unpack" ->
            <<"w","r","o","n","g"," ","n","u","m","b","e","r"," ","o","f"," ","v","a","l","u","e","s"," ","t","o"," ","u","n","p","a","c","k">>
      [] word = "invalid literal for int() with base 10" ->
            <<"i","n","v","a","l","i","d"," ","l","i","t","e","r","a","l"," ","f","o","r"," ","i","n","t","(",")"," ","w","i","t","h"," ","b","a","s","e"," ","1","0">>
      [] word = "int() argument must be a string or a number" ->
            <<"i","n","t","(",")"," ","a","r","g","u","m","e","n","t"," ","m","u","s","t"," ","b","e"," ","a"," ","s","t","r","i","n","g"," ","o","r"," ","a"," ","n","u","m","b","e","r">>
      [] word = "object has no attribute 'get'" ->
            <<"o","b","j","e","c","t"," ","h","a","s"," ","n","o"," ","a","t","t","r","i","b","u","t","e"," ","'","g","e","t","'">>
      [] word = "object has no attribute 'lower'" ->
            <<"o","b","j","e","c","t"," ","h","a","s"," ","n","o"," ","a","t","t","r","i","b","u","t","e"," ","'","l","o","w","e","r","'">>

RECURSIVE Flatten(_)
Flatten(words) ==
    IF words = <<>> THEN <<>> ELSE Chars(words[1]) \o Flatten(Tail(words))

\* f"{metrics['thr_avg']}"
ThrText(t) == IF t = None THEN <<"N","o","n","e">> ELSE Fmt2Rate(t)

\* the message text of lines 184-188 and of line 195
RenderMessage(m) ==
    IF m.severity = "high"
    THEN <<"A","I","_","A","L","E","R","T"," ","s","e","v","e","r","i","t","y","=","h","i","g","h"," ","s","c","o","r","e","=">> \o m.score
         \o <<" ","w","i","n","d","o","w","=">> \o Digits(m.window)
         \o <<"m"," ","t","o","t","a","l","=">> \o Digits(m.total)
         \o <<" ","s","e","c","=">> \o Digits(m.sec)
         \o <<" ","e","r","r","o","r","s","=">> \o Digits(m.errors)
         \o <<" ","t","h","r","_","a","v","g","=">> \o ThrText(m.thr_avg)
         \o <<" ","r","e","a","s","o","n","=","\"">> \o Flatten(m.reason) \o <<"\"">>
    ELSE <<"A","I","_","A","L","E","R","T"," ","s","e","v","e","r","i","t","y","=","m","e","d","i","u","m"," ","s","c","o","r","e","=">> \o m.score
         \o <<" ","r","e","a","s","o","n","=","\"">> \o Chars(m.reason[1]) \o <<" ">>
         \o Chars(m.reason[2]) \o <<"\"">>

\* line 66: f"{ts} {host} {tag}: {message}"
RenderLine(l) ==
    Chars(l.host) \o <<" ">> \o Chars(l.tag) \o <<":", " ">> \o RenderMessage(l.message)

\* ------------------------------------------------------------- the backend
\* the number of later cycles whose window can cover a line: the window is
\* WINDOW_MINUTES long and a cycle starts POLL_SECONDS or more after the
\* previous one
WindowCycles == (WINDOW_MINUTES * 60) \div POLL_SECONDS

\* the backend receives the datagram send_syslog transmitted
Ingest(st, message) ==
    Append(st, [age |-> 0, text |-> RenderLine(SyslogLine(message))])

\* one poll interval later: every line is one cycle older, and a line older
\* than the window is out of every later query
Aged(st) ==
    SelectSeq([i \in 1..Len(st) |-> [st[i] EXCEPT !.age = @ + 1]],
              LAMBDA e : e.age <= WindowCycles)

\* ------------------------------------------------------------------- main
Init ==
    /\ pc = "top"
    /\ threshold \in ThresholdValues
    /\ cycle = 0
    /\ data = None
    /\ lines = None
    /\ metrics = None
    /\ score = None
    /\ reasons = None
    /\ msg = None
    /\ exc = None
    /\ printed = <<>>
    /\ sent = <<>>
    /\ handed = <<>>
    /\ slept = 0
    /\ store = <<>>
    /\ external = TRUE

\* line 164-167: the loop head, a new cycle starts
CycleStart ==
    /\ pc = "top"
    /\ cycle < MaxCycles
    /\ pc' = "fetch"
    /\ cycle' = cycle + 1
    /\ printed' = <<>>
    /\ sent' = <<>>
    /\ handed' = <<>>
    /\ slept' = 0
    /\ UNCHANGED <<threshold, data, lines, metrics, score, reasons, msg, exc>>
    /\ UNCHANGED <<store, external>>

\* line 169: data = loki_query_range(...)
Fetch ==
    /\ pc = "fetch"
    /\ \/ \E r \in Responses :
            /\ data' = r
            /\ pc' = "extract"
            /\ exc' = exc
       \/ \E e \in FetchErrors :
            /\ exc' = e
            /\ pc' = "except"
            /\ data' = data
    /\ UNCHANGED <<threshold, cycle, lines, metrics, score, reasons, msg,
                   printed, sent, handed, slept>>
    /\ UNCHANGED <<store, external>>

\* line 170: lines = extract_lines(data)
Extract ==
    /\ pc = "extract"
    /\ LET r == extract_lines(data)
       IN  IF r.ok
           THEN /\ lines' = r.val
                /\ pc' = "metrics"
                /\ exc' = exc
           ELSE /\ exc' = r.exc
                /\ pc' = "except"
                /\ lines' = lines
    /\ UNCHANGED <<threshold, cycle, data, metrics, score, reasons, msg,
                   printed, sent, handed, slept>>
    /\ UNCHANGED <<store, external>>

\* line 171: metrics = compute_metrics(lines)
Metrics ==
    /\ pc = "metrics"
    /\ LET r == compute_metrics(lines)
       IN  IF r.ok
           THEN /\ metrics' = r.val
                /\ pc' = "score"
                /\ exc' = exc
           ELSE /\ exc' = r.exc
                /\ pc' = "except"
                /\ metrics' = metrics
    /\ UNCHANGED <<threshold, cycle, data, lines, score, reasons, msg,
                   printed, sent, handed, slept>>
    /\ UNCHANGED <<store, external>>

\* line 172: score, reasons = simple_score(metrics)
Score ==
    /\ pc = "score"
    /\ score' = simple_score(metrics).score
    /\ reasons' = simple_score(metrics).reasons
    /\ pc' = "print"
    /\ UNCHANGED <<threshold, cycle, data, lines, metrics, msg, exc,
                   printed, sent, handed, slept>>
    /\ UNCHANGED <<store, external>>

\* lines 174-180: the status line
PrintStatus ==
    /\ pc = "print"
    /\ printed' = Append(printed, StatusLine(metrics, score, reasons))
    /\ pc' = "check"
    /\ UNCHANGED <<threshold, cycle, data, lines, metrics, score, reasons, msg,
                   exc, sent, handed, slept>>
    /\ UNCHANGED <<store, external>>

\* mutants of Crosses: a strict test, no test at all, a hard-wired "any score"
CrossesStrict(sc, th)  == sc > th
CrossesAlways(sc, th)  == TRUE
CrossesNonzero(sc, th) == sc > 0

\* line 183: if score >= SCORE_THRESHOLD
Crosses(sc, th) == sc >= th

\* mutant of Check: an alert equal to the one built last is suppressed
CheckDedup ==
    /\ pc = "check"
    /\ IF Crosses(score, threshold) /\ msg # HighAlert(score, metrics, reasons)
       THEN /\ msg' = HighAlert(score, metrics, reasons)
            /\ pc' = "send"
       ELSE /\ msg' = msg
            /\ pc' = "sleep"
    /\ UNCHANGED <<threshold, cycle, data, lines, metrics, score, reasons,
                   exc, printed, sent, handed, slept>>
    /\ UNCHANGED <<store, external>>

\* lines 183-188: the threshold test and the alert message
Check ==
    /\ pc = "check"
    /\ IF Crosses(score, threshold)
       THEN /\ msg' = HighAlert(score, metrics, reasons)
            /\ pc' = "send"
       ELSE /\ msg' = msg
            /\ pc' = "sleep"
    /\ UNCHANGED <<threshold, cycle, data, lines, metrics, score, reasons,
                   exc, printed, sent, handed, slept>>
    /\ UNCHANGED <<store, external>>

\* line 189: send_syslog(msg), which transmits or raises
SendAlert ==
    /\ pc = "send"
    /\ handed' = Append(handed, msg)
    /\ \/ /\ sent' = Append(sent, SyslogLine(msg))
          /\ pc' = "sentprint"
          /\ exc' = exc
       \/ /\ exc' = SendError
          /\ pc' = "except"
          /\ sent' = sent
    /\ UNCHANGED <<threshold, cycle, data, lines, metrics, score, reasons, msg,
                   printed, slept>>
    /\ store' = IF sent' # sent THEN Ingest(store, msg) ELSE store
    /\ external' = external

\* line 190: print(">>> SENT:", msg)
PrintSent ==
    /\ pc = "sentprint"
    /\ printed' = Append(printed, [kind |-> "sent", msg |-> msg])
    /\ pc' = "sleep"
    /\ UNCHANGED <<threshold, cycle, data, lines, metrics, score, reasons, msg,
                   exc, sent, handed, slept>>
    /\ UNCHANGED <<store, external>>

\* mutant of PrintError: the handler retries the query in the same cycle
PrintErrorRetry ==
    /\ pc = "except"
    /\ printed' = Append(printed, [kind |-> "error", text |-> exc.text])
    /\ pc' = "fetch"
    /\ UNCHANGED <<threshold, cycle, data, lines, metrics, score, reasons, msg,
                   exc, sent, handed, slept>>
    /\ UNCHANGED <<store, external>>

\* lines 192-193: except Exception as e: print("ERROR:", e)
PrintError ==
    /\ pc = "except"
    /\ printed' = Append(printed, [kind |-> "error", text |-> exc.text])
    /\ pc' = "esend"
    /\ UNCHANGED <<threshold, cycle, data, lines, metrics, score, reasons, msg,
                   exc, sent, handed, slept>>
    /\ UNCHANGED <<store, external>>

\* mutant of SendErrorAlert: the handler goes straight back to the loop head
SendErrorAlertContinue ==
    /\ pc = "esend"
    /\ handed' = Append(handed, ErrorAlert(exc))
    /\ \/ /\ sent' = Append(sent, SyslogLine(ErrorAlert(exc)))
          /\ pc' = "top"
          /\ exc' = None
       \/ /\ exc' = SendError
          /\ pc' = "crashed"
          /\ sent' = sent
    /\ UNCHANGED <<threshold, cycle, data, lines, metrics, score, reasons, msg,
                   printed, slept>>
    /\ store' = IF sent' # sent THEN Ingest(store, ErrorAlert(exc)) ELSE store
    /\ external' = external

\* line 195: send_syslog(...) inside the handler; an exception raised here is
\* outside every try block and leaves main()
SendErrorAlert ==
    /\ pc = "esend"
    /\ handed' = Append(handed, ErrorAlert(exc))
    /\ \/ /\ sent' = Append(sent, SyslogLine(ErrorAlert(exc)))
          /\ pc' = "sleep"
          /\ exc' = None
       \/ /\ exc' = SendError
          /\ pc' = "crashed"
          /\ sent' = sent
    /\ UNCHANGED <<threshold, cycle, data, lines, metrics, score, reasons, msg,
                   printed, slept>>
    /\ store' = IF sent' # sent THEN Ingest(store, ErrorAlert(exc)) ELSE store
    /\ external' = external

\* line 197: time.sleep(POLL_SECONDS), then back to the loop head
Sleep ==
    /\ pc = "sleep"
    /\ slept' = POLL_SECONDS
    /\ pc' = "top"
    /\ UNCHANGED <<threshold, cycle, data, lines, metrics, score, reasons, msg,
                   exc, printed, sent, handed>>
    /\ store' = Aged(store)
    /\ external' = external

Running == pc \notin {"crashed", "stopped"}

\* mutant of Interrupt: a bare except, the interrupt is handled as a failure
InterruptCaught ==
    /\ Running
    /\ pc \notin {"except", "esend"}
    /\ pc' = "except"
    /\ exc' = [type |-> "KeyboardInterrupt", text |-> ","]
    /\ UNCHANGED <<threshold, cycle, data, lines, metrics, score, reasons, msg,
                   printed, sent, handed, slept>>
    /\ UNCHANGED <<store, external>>

\* Ctrl+C: KeyboardInterrupt is not an Exception, no handler of main() catches it
Interrupt ==
    /\ Running
    /\ pc' = "stopped"
    /\ UNCHANGED <<threshold, cycle, data, lines, metrics, score, reasons, msg,
                   exc, printed, sent, handed, slept>>
    /\ UNCHANGED <<store, external>>

Next ==
    \/ CycleStart \/ Fetch \/ Extract \/ Metrics \/ Score \/ PrintStatus
    \/ Check \/ SendAlert \/ PrintSent \/ PrintError \/ SendErrorAlert
    \/ Sleep \/ Interrupt

Spec == Init /\ [][Next]_vars

\* ---------------------------------------------- simple_score on its domain
MaxLogRate == 21
MaxSecRate == 6
MaxErrRate == 3
MaxThrAvg  == 26

\* whole rates up to the bound, and the fifths next to each rule's threshold
LogRates == {Rate(k, 1) : k \in 0..MaxLogRate} \cup {Rate(99, 5), Rate(101, 5)}
SecRates == {Rate(k, 1) : k \in 0..MaxSecRate} \cup {Rate(24, 5), Rate(26, 5)}
ErrRates == {Rate(k, 1) : k \in 0..MaxErrRate} \cup {Rate(9, 5), Rate(11, 5)}
ThrAvgs  == {None} \cup {[n |-> k, d |-> 100] : k \in 0..MaxThrAvg}

MetricsDomain ==
    [log_rate : LogRates, sec_rate : SecRates, err_rate : ErrRates, thr_avg : ThrAvgs]

ScoreInit ==
    /\ pc = "score"
    /\ threshold = SCORE_THRESHOLD
    /\ cycle = 1
    /\ data = None
    /\ lines = None
    /\ metrics \in MetricsDomain
    /\ score = None
    /\ reasons = None
    /\ msg = None
    /\ exc = None
    /\ printed = <<>>
    /\ sent = <<>>
    /\ handed = <<>>
    /\ slept = 0
    /\ store = <<>>
    /\ external = TRUE

ScoreNext == Score

SpecScore == ScoreInit /\ [][ScoreNext]_vars

\* ------------------------------------ the loop reading back its own alerts
\* cycles of a run in which the detector reads its own alerts back: a window
\* of WindowCycles own lines is read by the cycle after them
MaxLoopCycles == 6

\* the lines of other sources in a window while such lines still arrive: ten
\* lines with an error marker
ExternalBurst == Values(10, TxtError, 100)

\* the detector's own lines as entries of a stream
OwnValues(st) ==
    [i \in 1..Len(st) |-> JArr(<<JStr(Digits(i)), JStr(st[i].text)>>)]

\* the backend's answer to QUERY for the current window
StoreResponse(st, burst) ==
    IF st = <<>> /\ burst = <<>>
    THEN Response(<<>>)
    ELSE Response(<<Stream(OwnValues(st) \o burst)>>)

\* the failure of a query in these runs
LoopFetchError == [type |-> "Timeout", text |-> "Read timed out."]

LoopInit ==
    /\ Init
    /\ threshold = SCORE_THRESHOLD

\* lines 164-167: the loop head; by now the other sources may have fallen
\* silent for good and their lines have left the window
CycleStartLoop ==
    /\ pc = "top"
    /\ cycle < MaxLoopCycles
    /\ pc' = "fetch"
    /\ cycle' = cycle + 1
    /\ printed' = <<>>
    /\ sent' = <<>>
    /\ handed' = <<>>
    /\ slept' = 0
    /\ external' \in (IF external THEN {TRUE, FALSE} ELSE {FALSE})
    /\ UNCHANGED <<threshold, data, lines, metrics, score, reasons, msg, exc,
                   store>>

\* line 169: the query returns the stored lines of the window, or fails
FetchLoop ==
    /\ pc = "fetch"
    /\ \/ /\ data' = StoreResponse(store, IF external THEN ExternalBurst ELSE <<>>)
          /\ pc' = "extract"
          /\ exc' = exc
       \/ /\ exc' = LoopFetchError
          /\ pc' = "except"
          /\ data' = data
    /\ UNCHANGED <<threshold, cycle, lines, metrics, score, reasons, msg,
                   printed, sent, handed, slept, store, external>>

\* a run of the loop without an external shutdown
LoopNext ==
    \/ CycleStartLoop \/ FetchLoop \/ Extract \/ Metrics \/ Score \/ PrintStatus
    \/ Check \/ SendAlert \/ PrintSent \/ PrintError \/ SendErrorAlert
    \/ Sleep

SpecLoop == LoopInit /\ [][LoopNext]_vars

\* ================================================================== claims
\* what the observations of the current cycle say about it
StatusPrinted == printed # <<>> /\ printed[1].kind = "status"
Failed        == \E i \in 1..Len(printed) : printed[i].kind = "error"
CycleOver     == pc \in {"sleep", "top"} /\ cycle >= 1
Half          == <<"0", ".", "5", "0">>

\* the four rule conditions, read off the claim's text
FiresLog(m) == m.log_rate.n >= 20 * m.log_rate.d
FiresSec(m) == m.sec_rate.n >= 5 * m.sec_rate.d
FiresErr(m) == m.err_rate.n >= 2 * m.err_rate.d
FiresThr(m) == m.thr_avg # None /\ 100 * m.thr_avg.n < 25 * m.thr_avg.d

RatLE(a, b) == a.n * b.d <= b.n * a.d

\* C1: for every metrics snapshot the score simple_score returns lies in
\* [0, 1] (0..100 hundredths), and it is exactly 1.0 when all four rules fire.
C1_ScoreInUnitInterval ==
    pc = "print" =>
        /\ score >= 0
        /\ score <= 100
        /\ (FiresLog(metrics) /\ FiresSec(metrics) /\ FiresErr(metrics)
              /\ FiresThr(metrics)) => score = 100

C1_Witness ==
    /\ pc = "print"
    /\ FiresLog(metrics) /\ FiresSec(metrics) /\ FiresErr(metrics) /\ FiresThr(metrics)
    /\ score = 100

\* C9: simple_score's reasons list is empty exactly when the score is 0; when
\* no rule condition holds the result is score 0 with no reason.
C9_ReasonsEmptyIffZero ==
    pc = "print" =>
        /\ (reasons = <<>>) <=> (score = 0)
        /\ (~FiresLog(metrics) /\ ~FiresSec(metrics) /\ ~FiresErr(metrics)
              /\ ~FiresThr(metrics)) => (score = 0 /\ reasons = <<>>)

C9_Witness ==
    /\ pc = "print"
    /\ ~FiresLog(metrics) /\ ~FiresSec(metrics) /\ ~FiresErr(metrics)
    /\ metrics.thr_avg # None /\ ~FiresThr(metrics)
    /\ score = 0 /\ reasons = <<>>

\* C10: the score does not decrease when log_rate, sec_rate or err_rate is
\* raised with the other metrics fixed, nor when a present thr_avg is lowered.
C10_Monotone ==
    pc = "print" =>
        /\ \A r \in LogRates : RatLE(metrics.log_rate, r) =>
              simple_score([metrics EXCEPT !.log_rate = r]).score >= score
        /\ \A r \in SecRates : RatLE(metrics.sec_rate, r) =>
              simple_score([metrics EXCEPT !.sec_rate = r]).score >= score
        /\ \A r \in ErrRates : RatLE(metrics.err_rate, r) =>
              simple_score([metrics EXCEPT !.err_rate = r]).score >= score
        /\ metrics.thr_avg # None =>
              \A t \in ThrAvgs \ {None} : RatLE(t, metrics.thr_avg) =>
                  simple_score([metrics EXCEPT !.thr_avg = t]).score >= score

C10_Witness ==
    /\ pc = "print"
    /\ metrics.thr_avg # None
    /\ \E t \in ThrAvgs \ {None} :
          /\ RatLE(t, metrics.thr_avg)
          /\ simple_score([metrics EXCEPT !.thr_avg = t]).score > score
    /\ \E r \in ErrRates :
          /\ RatLE(metrics.err_rate, r)
          /\ simple_score([metrics EXCEPT !.err_rate = r]).score > score

\* C2 (as stated): a cycle whose fetch, extract or scoring step failed logs
\* the error, emits exactly one severity=medium score=0.50 ai_engine_error
\* datagram, and the loop goes on to sleep; it does not terminate.
C2_Original ==
    (printed # <<>> /\ printed[1].kind = "error"
        /\ pc \in {"sleep", "top", "crashed"}) =>
        /\ pc # "crashed"
        /\ Len(sent) = 1
        /\ sent[1].message.severity = "medium"
        /\ sent[1].message.score = Half
        /\ sent[1].message.reason = <<"ai_engine_error", printed[1].text>>

\* C3 (as stated): a transmission failure of send_syslog never propagates out
\* of the scheduler loop.
C3_Original == pc # "crashed"

\* the metrics and the score of the response fetched in this cycle
CycleMetrics == compute_metrics(extract_lines(data).val).val
CycleScore   == simple_score(CycleMetrics)

\* C4: a cycle whose fetch, extract and scoring succeeded logs its metrics and
\* score whether or not the threshold is crossed, and if score >= threshold
\* an alert with that cycle's score, window, total, security count, error
\* count, throughput average and reasons is built and handed to send_syslog.
C4_LoggedAndHanded ==
    /\ (pc \in {"check", "send", "sentprint"} \/ (CycleOver /\ ~Failed)) =>
          /\ StatusPrinted
          /\ printed[1].total = CycleMetrics.total
          /\ printed[1].log_rate = Fmt2Rate(CycleMetrics.log_rate)
          /\ printed[1].sec_rate = Fmt2Rate(CycleMetrics.sec_rate)
          /\ printed[1].err_rate = Fmt2Rate(CycleMetrics.err_rate)
          /\ printed[1].thr_avg = CycleMetrics.thr_avg
          /\ printed[1].score = Fmt2(CycleScore.score)
          /\ printed[1].reasons = CycleScore.reasons
    /\ (StatusPrinted /\ CycleScore.score >= threshold
          /\ (pc \in {"sentprint", "except", "esend", "crashed"} \/ CycleOver)) =>
          /\ handed # <<>>
          /\ handed[1].severity = "high"
          /\ handed[1].score = Fmt2(CycleScore.score)
          /\ handed[1].window = 5
          /\ handed[1].total = CycleMetrics.total
          /\ handed[1].sec = CycleMetrics.security
          /\ handed[1].errors = CycleMetrics.errors
          /\ handed[1].thr_avg = CycleMetrics.thr_avg
          /\ handed[1].reason = Join(CycleScore.reasons)

C4_Witness ==
    /\ pc = "sentprint"
    /\ StatusPrinted
    /\ threshold = 100
    /\ CycleScore.score = 100
    /\ handed # <<>> /\ handed[1].severity = "high"
    /\ handed[1].thr_avg # None

\* C5: a cycle starts only at the loop head, and after the first cycle only
\* when POLL_SECONDS were slept since the previous one; the loop head is
\* reached only through the sleep; a handler that returns goes to the sleep,
\* as a successful cycle does.
C5_SleepBetweenCycles ==
    [][ /\ (cycle' # cycle) => (pc = "top" /\ (cycle >= 1 => slept = 60))
        /\ (pc' = "top" /\ pc # "top") => (pc = "sleep" /\ slept' = 60)
        /\ (pc \in {"esend", "sentprint"} /\ pc' \notin {"crashed", "stopped"})
              => pc' = "sleep"
      ]_vars

C5_Witness ==
    /\ pc = "top"
    /\ cycle >= 1
    /\ Failed
    /\ slept = 60

\* C6 (as stated): every cycle prints one line of status (the metrics line or
\* the ERROR line), and a failed cycle also emits one alert datagram.
C6_Original ==
    pc = "sleep" =>
        /\ Cardinality({i \in 1..Len(printed) :
                            printed[i].kind \in {"status", "error"}}) = 1
        /\ Failed => Len(sent) = 1

\* C7: a message is built and sent only when the cycle's score reached the
\* threshold (severity=high, the cycle's score) or when the cycle failed
\* (severity=medium, score=0.50); a successful cycle below the threshold sends
\* nothing.
C7_AlertOnlyWhen ==
    /\ \A i \in 1..Len(handed) :
          \/ /\ handed[i].severity = "high"
             /\ i = 1
             /\ StatusPrinted
             /\ CycleScore.score >= threshold
             /\ handed[i].score = Fmt2(CycleScore.score)
          \/ /\ handed[i].severity = "medium"
             /\ handed[i].score = Half
             /\ Failed
    /\ \A i \in 1..Len(sent) : \E j \in 1..Len(handed) : sent[i].message = handed[j]
    /\ pc = "send" => (StatusPrinted /\ CycleScore.score >= threshold)
    /\ (CycleOver /\ ~Failed /\ CycleScore.score < threshold) =>
          (sent = <<>> /\ handed = <<>>)

C7_Witness ==
    /\ pc = "sleep"
    /\ ~Failed
    /\ threshold = 75
    /\ CycleScore.score = 70
    /\ sent = <<>>

\* C8: with the threshold 0.10 every cycle with a nonzero score hands a
\* threshold alert to send_syslog; with the threshold 1.01 no threshold alert
\* is ever built, not even at the maximum score 1.0.
C8_ThresholdEdges ==
    /\ (threshold = 10 /\ StatusPrinted /\ CycleScore.score > 0
          /\ (pc \in {"sentprint", "except", "esend", "crashed"} \/ CycleOver)) =>
          (handed # <<>> /\ handed[1].severity = "high")
    /\ threshold = 101 =>
          /\ pc \notin {"send", "sentprint"}
          /\ \A i \in 1..Len(handed) : handed[i].severity # "high"

C8_Witness ==
    /\ threshold = 101
    /\ pc = "sleep"
    /\ StatusPrinted
    /\ CycleScore.score = 100
    /\ handed = <<>>

\* a response whose data.result is an empty array, or is absent
ResultEmptyOrAbsent(j) ==
    /\ j.t = "obj"
    /\ \/ "data" \notin DOMAIN j.f
       \/ /\ j.f["data"].t = "obj"
          /\ \/ "result" \notin DOMAIN j.f["data"].f
             \/ j.f["data"].f["result"] = JArr(<<>>)

ZeroSnapshot ==
    [total |-> 0, log_rate |-> [n |-> 0, d |-> 5], security |-> 0,
     sec_rate |-> [n |-> 0, d |-> 5], errors |-> 0,
     err_rate |-> [n |-> 0, d |-> 5], thr_avg |-> None]

\* C11: for a response whose data.result is empty or absent extract_lines
\* returns the empty sequence without raising, and compute_metrics on it
\* returns the zero snapshot: total 0, rates 0, no security or error line,
\* thr_avg None.
C11_EmptyResult ==
    [][ /\ (pc = "extract" /\ ResultEmptyOrAbsent(data) /\ pc' # "stopped")
              => (pc' = "metrics" /\ lines' = <<>>)
        /\ (pc = "metrics" /\ ResultEmptyOrAbsent(data) /\ pc' # "stopped")
              => (pc' = "score" /\ metrics' = ZeroSnapshot)
      ]_vars

C11_Witness ==
    /\ pc = "score"
    /\ data.t = "obj" /\ "data" \notin DOMAIN data.f
    /\ lines = <<>>
    /\ metrics = ZeroSnapshot

\* C12: compute_metrics counts every line once in total, at most once as a
\* security line (its lower-cased text contains "security:" or "auth") and at
\* most once as an error line ("error", "failed", "deny" or "blocked"), and
\* divides the counts by max(WINDOW_MINUTES, 1) = 5; the rate thresholds are
\* inclusive: 100 plain lines give log_rate 20, score 0.35 and the one reason
\* high_log_rate, and 100 lines of which 30 contain "auth" give sec_rate 6 and
\* score 0.70.
C12_CountsAndRates ==
    /\ pc = "score" =>
          /\ metrics.total = Len(lines)
          /\ metrics.security =
                Cardinality({i \in 1..Len(lines) :
                    \/ Contains(lower(lines[i][2].s), <<"s","e","c","u","r","i","t","y",":">>)
                    \/ Contains(lower(lines[i][2].s), <<"a","u","t","h">>)})
          /\ metrics.errors =
                Cardinality({i \in 1..Len(lines) :
                    \/ Contains(lower(lines[i][2].s), <<"e","r","r","o","r">>)
                    \/ Contains(lower(lines[i][2].s), <<"f","a","i","l","e","d">>)
                    \/ Contains(lower(lines[i][2].s), <<"d","e","n","y">>)
                    \/ Contains(lower(lines[i][2].s), <<"b","l","o","c","k","e","d">>)})
          /\ metrics.log_rate = [n |-> metrics.total, d |-> 5]
          /\ metrics.sec_rate = [n |-> metrics.security, d |-> 5]
          /\ metrics.err_rate = [n |-> metrics.errors, d |-> 5]
    /\ (pc = "score" /\ data = RespBoth) =>
          (metrics.total = 4 /\ metrics.security = 4 /\ metrics.errors = 4)
    /\ (pc = "print" /\ data = RespBusy) =>
          /\ metrics.total = 100
          /\ metrics.log_rate.n = 20 * metrics.log_rate.d
          /\ score = 35
          /\ reasons = <<"high_log_rate">>
    /\ (pc = "print" /\ data = RespAuth) =>
          /\ metrics.total = 100
          /\ metrics.security = 30
          /\ metrics.sec_rate.n = 6 * metrics.sec_rate.d
          /\ score = 70
          /\ reasons = <<"high_log_rate", "high_security_rate">>

C12_Witness ==
    /\ pc = "print"
    /\ data = RespAuth
    /\ metrics.security = 30
    /\ score = 70

\* C13: thr_avg is None exactly when no line yields a throughput value, and
\* then the low-throughput rule does not fire; otherwise thr_avg is the average
\* of the values and the rule fires exactly when the average is below 0.25, an
\* average of 0 included; three lines "Throughput=0.10" that fire no other
\* rule score 0.30 with the one reason low_throughput.
C13_ThroughputAverage ==
    pc = "print" =>
        /\ (metrics.thr_avg = None) <=>
              (\A i \in 1..Len(lines) : RE_THROUGHPUT(lines[i][2].s) = None)
        /\ ("low_throughput" \in {reasons[i] : i \in 1..Len(reasons)}) <=>
              (metrics.thr_avg # None /\ 100 * metrics.thr_avg.n < 25 * metrics.thr_avg.d)
        /\ data \in {RespQuiet, RespBusy, RespThrLower} =>
              (metrics.thr_avg = None /\ score \in {0, 35})
        /\ data = RespThrLow =>
              /\ 10 * metrics.thr_avg.n = metrics.thr_avg.d
              /\ score = 30
              /\ reasons = <<"low_throughput">>
        /\ data = RespThrZero =>
              (metrics.thr_avg # None /\ metrics.thr_avg.n = 0 /\ score = 30)
        /\ data = RespThrEdge =>
              (4 * metrics.thr_avg.n = metrics.thr_avg.d /\ score = 0)

C13_Witness ==
    /\ pc = "print"
    /\ data = RespThrLow
    /\ metrics.total = 3
    /\ score = 30
    /\ reasons = <<"low_throughput">>

\* C14: the four rules are independent and additive: the score is
\* min(1.0, the sum of the weights 0.35, 0.35, 0.20, 0.30 of exactly the rules
\* whose condition holds), and the reasons are exactly the tags of those
\* rules, each once, in the order high_log_rate, high_security_rate,
\* high_error_rate, low_throughput.
C14_IndependentAdditive ==
    pc = "print" =>
        LET sum == (IF FiresLog(metrics) THEN 35 ELSE 0)
                   + (IF FiresSec(metrics) THEN 35 ELSE 0)
                   + (IF FiresErr(metrics) THEN 20 ELSE 0)
                   + (IF FiresThr(metrics) THEN 30 ELSE 0)
        IN  /\ score = (IF sum > 100 THEN 100 ELSE sum)
            /\ reasons =
                  (IF FiresLog(metrics) THEN <<"high_log_rate">> ELSE <<>>)
                  \o (IF FiresSec(metrics) THEN <<"high_security_rate">> ELSE <<>>)
                  \o (IF FiresErr(metrics) THEN <<"high_error_rate">> ELSE <<>>)
                  \o (IF FiresThr(metrics) THEN <<"low_throughput">> ELSE <<>>)

C14_Witness ==
    /\ pc = "print"
    /\ FiresLog(metrics) /\ ~FiresSec(metrics) /\ ~FiresErr(metrics) /\ FiresThr(metrics)
    /\ score = 65
    /\ reasons = <<"high_log_rate", "low_throughput">>

\* C15 (as stated): extract_lines recovers from a malformed response by
\* itself: an entry that is not a two-element pair or whose timestamp is not an
\* integer string is skipped, the extraction never raises, and the cycle goes
\* on to the metrics instead of becoming a failed cycle with its alert.
C15_Original ==
    [][ (pc = "extract" /\ pc' # "stopped") =>
            (pc' = "metrics" /\ exc' = exc /\ handed' = <<>>) ]_vars

\* C16 (as stated): only a backend failure or an exception of the metric or
\* score computation makes a failed cycle; once the status line is printed
\* the one step left is the transmission of the threshold alert, and its
\* failure is not escalated: the cycle is not a failed one and no
\* severity=medium score=0.50 alert is handed to send_syslog.
C16_Original ==
    StatusPrinted =>
        /\ pc \notin {"except", "esend"}
        /\ ~Failed
        /\ \A i \in 1..Len(handed) : handed[i].severity # "medium"

\* the place of a position in the text of one cycle
Rank(p) ==
    CASE p = "fetch" -> 1 [] p = "extract" -> 2 [] p = "metrics" -> 3
      [] p = "score" -> 4 [] p = "print" -> 5 [] p = "check" -> 6
      [] p = "send" -> 7 [] p = "sentprint" -> 8 [] p = "except" -> 9
      [] p = "esend" -> 10 [] p = "sleep" -> 11 [] p = "top" -> 12
      [] p = "crashed" -> 13 [] p = "stopped" -> 14

\* C17 (as stated): the steps of a cycle come in the order fetch, extract,
\* score, maybe-alert, log: the status line is logged after the alert
\* decision and emission, so once it is printed no alert step remains.
C17_Original == StatusPrinted => pc \notin {"check", "send"}

\* C17 (amended): one thread of control; within a cycle the steps come in the
\* order fetch, extract, metrics and score, log of the status line, then the
\* threshold test and the alert, each at most once (the position only moves
\* forward), and a step of the next cycle begins only at the loop head after
\* the current cycle has run to its end and slept.
C17_StepOrder ==
    [][ /\ pc' # pc =>
              \/ (cycle' = cycle /\ Rank(pc') > Rank(pc))
              \/ /\ pc = "top" /\ pc' = "fetch" /\ cycle' = cycle + 1
                 /\ cycle >= 1 => slept = 60
        /\ pc \in {"check", "send"} => StatusPrinted
        /\ pc \in {"fetch", "extract", "metrics", "score", "print", "check", "send"}
              => (handed = <<>> /\ sent = <<>>)
      ]_vars

C17_Witness ==
    /\ pc = "sentprint"
    /\ cycle = 2
    /\ StatusPrinted
    /\ Len(printed) = 1
    /\ Len(handed) = 1 /\ handed[1].severity = "high"

\* a step that ends the loop and does nothing else
StopNow ==
    /\ pc' = "stopped"
    /\ UNCHANGED <<threshold, cycle, data, lines, metrics, score, reasons, msg,
                   exc, printed, sent, handed, slept, store, external>>

C19_NoCarriedState ==
    /\ pc \in {"score", "print", "check", "send", "sentprint"} =>
          metrics = CycleMetrics
    /\ pc \in {"print", "check", "send", "sentprint"} =>
          (score = CycleScore.score /\ reasons = CycleScore.reasons)
    /\ (pc = "sentprint" \/ (CycleOver /\ ~Failed)) =>
          /\ handed = IF CycleScore.score >= threshold
                      THEN <<HighAlert(CycleScore.score, CycleMetrics,
                                       CycleScore.reasons)>>
                      ELSE <<>>
          /\ sent = [i \in 1..Len(handed) |-> SyslogLine(handed[i])]

C19_Witness ==
    /\ cycle = 2
    /\ pc = "sentprint"
    /\ Len(store) = 2
    /\ store[1].age = 1
    /\ store[1].text = RenderLine(SyslogLine(msg))
    /\ store[2].age = 0
    /\ store[2].text = store[1].text
    /\ sent = <<SyslogLine(msg)>>

\* C20: the alerts the detector sends come back as lines of later windows and
\* count as error lines there (every alert text contains "error"), but a cycle
\* transmits at most one datagram and a window covers at most WindowCycles
\* cycles, so a window holding only the detector's own lines has at most five
\* lines: log_rate and err_rate stay below 20 and 2, the score is 0 and no
\* threshold alert is built.  From the cycle on in which the lines of other
\* sources have left the window, no threshold alert is handed to send_syslog.
C20_NoSelfSustainingAlerts ==
    /\ Len(sent) <= 1
    /\ Len(store) <= WindowCycles + 1
    /\ pc = "fetch" => Len(store) <= WindowCycles
    /\ \A i \in 1..Len(store) :
          Contains(lower(store[i].text), <<"e","r","r","o","r">>)
    /\ ~external =>
          /\ pc \notin {"send", "sentprint"}
          /\ \A i \in 1..Len(handed) : handed[i].severity # "high"
          /\ (pc \in {"print", "check"} \/ (CycleOver /\ ~Failed)) =>
                /\ metrics.total <= WindowCycles
                /\ pc \in {"print", "check"} => metrics.total = Len(store)
                /\ metrics.errors = metrics.total
                /\ metrics.log_rate.n < 20 * metrics.log_rate.d
                /\ metrics.err_rate.n < 2 * metrics.err_rate.d
                /\ score = 0
                /\ reasons = <<>>

C20_Witness ==
    /\ ~external
    /\ pc = "sleep"
    /\ ~Failed
    /\ Len(store) = 5
    /\ \E i \in 1..5 : Contains(store[i].text, <<"h","i","g","h","_","e","r","r","o","r","_","r","a","t","e">>)
    /\ \E i \in 1..5 : Contains(store[i].text, <<"a","i","_","e","n","g","i","n","e","_","e","r","r","o","r">>)
    /\ metrics.total = 5
    /\ metrics.errors = 5
    /\ score = 0
    /\ handed = <<>>

====
